---------------------------- MODULE Spec2Model ----------------------------
(***************************************************************************)
(* loamy: concurrent dispatch of a batch of HTTP requests.                 *)
(*                                                                         *)
(* Two dispatchers are modelled from the source:                           *)
(*   Clump     (src/src/loamy/session.py)                                  *)
(*   zSession  (src/src/zconcurrent/zsession.py)                           *)
(* One behaviour is one dispatch call on one dispatcher object: the        *)
(* object is constructed (Init), send_requests / sendRequests opens the    *)
(* shared aiohttp session and creates one task per descriptor, the tasks   *)
(* run interleaved at their await points, asyncio.gather collects them,    *)
(* and the call returns its aggregate or raises.  The HTTP transport is    *)
(* the environment: at each await it answers, raises an ordinary           *)
(* Exception, or the task is cancelled (a BaseException).                  *)
(***************************************************************************)
EXTENDS Integers, Sequences, FiniteSets, TLC

(***************************************************************************)
(* Bounds of the model.                                                    *)
(***************************************************************************)
MaxBatch == 2

\* The number of dispatch calls made on one dispatcher object.
MaxCalls == 2

(***************************************************************************)
(* Values.  Python's None is "None" for an exception class and the empty   *)
(* tuple for a dict (body, headers, query parameters).                     *)
(***************************************************************************)
None == "None"

NoDict == << >>

ValidVerbs == {"GET", "POST", "PUT", "PATCH", "OPTIONS", "DELETE"}

\* Statuses the server side answers with in the modelled runs.
Statuses == {200, 500}

\* Raw response payloads: one that is JSON, one that is not.
JsonRaw == "{msg:hello}"

HtmlRaw == "<html>error</html>"

RawBodies == {JsonRaw, HtmlRaw}

RequestMap(url, op, body) ==
    [url |-> url, http_op |-> op, body |-> body,
     query_params |-> NoDict, headers |-> NoDict]

FooBar == <<"foo", "bar">>

\* The descriptors of the request tests (GET /, POST /foo with a body, GET
\* /exception) and one whose verb slipped past validation (neither class
\* validates an assignment or a direct construction).
CoreDescriptors ==
    { RequestMap("/", "GET", NoDict),
      RequestMap("/foo", "POST", FooBar),
      RequestMap("/exception", "GET", NoDict),
      RequestMap("/foo", "HEAD", NoDict) }

\* Query parameters and headers a descriptor may carry.
QueryFooBar == <<"foo", "bar">>

AuthToken == <<"Authorization", "TOKEN">>

WithExtras(d) == [d EXCEPT !.query_params = QueryFooBar, !.headers = AuthToken]

\* One descriptor for each remaining verb, with and without a body, query
\* parameters and headers, and a GET that carries all three.
OtherDescriptors ==
    { WithExtras(RequestMap("/foo", "PUT", FooBar)),
      WithExtras(RequestMap("/foo", "PATCH", FooBar)),
      RequestMap("/foo", "OPTIONS", NoDict),
      RequestMap("/foo", "DELETE", FooBar),
      WithExtras(RequestMap("/", "GET", FooBar)) }

Descriptors == CoreDescriptors \cup OtherDescriptors

\* The same descriptors as zsession.py's RequestMap declares them.
zRequestMap(url, op, body) ==
    [url |-> url, httpOperation |-> op, body |-> body,
     queryParams |-> NoDict, headers |-> NoDict]

zOf(D) ==
    { [zRequestMap(d.url, d.http_op, d.body)
          EXCEPT !.queryParams = d.query_params, !.headers = d.headers] : d \in D }

\* The batches a dispatcher is constructed with: every batch of up to
\* MaxBatch core descriptors, and every descriptor on its own.
Batches(Core, All) ==
    UNION { [1..n -> Core] : n \in 0..MaxBatch } \cup { <<d>> : d \in All }

VARIABLES
    dispatcher,     \* "Clump" or "zSession": the class of the object
    requestMaps,    \* self._requestMaps
    rtn_exc,        \* the return_exceptions argument of the call
    pcMain,         \* position of the dispatch call
    session,        \* the aiohttp.ClientSession of the call
    sessionsOpened, \* number of ClientSession objects created so far
    pc,             \* position of each task
    calls,          \* the transport call each task issued
    resp,           \* the aiohttp response object each task holds
    thrown,         \* the class of the exception raised inside each task
    taskResult,     \* what each finished task returned
    taskExc,        \* the class of what each finished task raised
    doneOrder,      \* the tasks in the order they finished
    gatherExc,      \* the exception gather's outer future was set to
    responses,      \* the list Clump.send_requests returned
    requestResults, \* the RequestResults zSession.sendRequests returned
    raised          \* the exception the dispatch call raised

vars == <<dispatcher, requestMaps, rtn_exc, pcMain, session, sessionsOpened,
          pc, calls, resp, thrown, taskResult, taskExc, doneOrder, gatherExc,
          responses, requestResults, raised>>

N == Len(requestMaps)

Units == 1..N

NoSession == [id |-> 0, state |-> "none"]

NoCall == [op |-> None]

NoResp == [status |-> -1, raw |-> None]

NoResult == [status_code |-> -1]

NoExc == [cls |-> None, unit |-> 0]

NoResults == [requestResponses |-> << >>, taskExceptions |-> << >>]

\* Exception classes.  CancelledError derives from BaseException only.
OrdinaryErrors == {"ClientError", "NotImplementedError", "ContentTypeError"}

IsException(cls) == cls \in OrdinaryErrors

Exc(cls, i) == [cls |-> cls, unit |-> i]

Finished(i) == pc[i] \in {"returned", "raised"}

InFlight(i) == pc[i] \in {"await_headers", "await_body"}

(***************************************************************************)
(* Body decoding: resp.json(), resp.text() and resp.headers of aiohttp.    *)
(***************************************************************************)
JsonDecodable(raw) == raw = JsonRaw

JsonOf(raw) == <<"json", raw>>

TextOf(raw) == raw

HeadersOf(r) ==
    <<"Content-Type",
      IF JsonDecodable(r.raw) THEN "application/json" ELSE "text/html">>

(***************************************************************************)
(* Clump: the per-verb senders.  Each takes the descriptor and the         *)
(* transport's answer r = [status, raw] and builds the RequestResponse:    *)
(* the decoded body, or on a decode error the text wrapper with the error  *)
(* attached.                                                               *)
(***************************************************************************)
NoPayload == <<"no json argument">>

RequestResponse(req_map, status_code) ==
    [request_map |-> req_map, status_code |-> status_code,
     body |-> NoDict, headers |-> NoDict, error |-> None]

DecodedResponse(req_map, r) ==
    LET error == IF JsonDecodable(r.raw) THEN None ELSE "ContentTypeError"
        body  == IF JsonDecodable(r.raw)
                 THEN JsonOf(r.raw)
                 ELSE <<"text", TextOf(r.raw)>>
    IN  [request_map |-> req_map, status_code |-> r.status, body |-> body,
         headers |-> HeadersOf(r), error |-> error]

\* Variant: a body that does not decode is reported as a failed request.
send_get_request_strict(req_map, r) ==
    IF JsonDecodable(r.raw)
    THEN DecodedResponse(req_map, r)
    ELSE [RequestResponse(req_map, 0) EXCEPT !.error = "ContentTypeError"]

send_get_request(req_map, r) == DecodedResponse(req_map, r)

\* Variant: the response headers are not copied to the outcome.
send_post_request_no_headers(req_map, r) ==
    [DecodedResponse(req_map, r) EXCEPT !.headers = NoDict]

send_post_request(req_map, r) == DecodedResponse(req_map, r)

\* Variant: the decode error is left to the handler of the router, which
\* stores it on the preset response.
send_put_request_unguarded(req_map, r) ==
    IF JsonDecodable(r.raw)
    THEN DecodedResponse(req_map, r)
    ELSE [RequestResponse(req_map, 0) EXCEPT !.error = "ContentTypeError"]

send_put_request(req_map, r) == DecodedResponse(req_map, r)

send_patch_request(req_map, r) == DecodedResponse(req_map, r)

send_options_request(req_map, r) == DecodedResponse(req_map, r)

\* Variant: the decode error is not attached to the outcome.
send_delete_request_no_error(req_map, r) ==
    [DecodedResponse(req_map, r) EXCEPT !.error = None]

send_delete_request(req_map, r) == DecodedResponse(req_map, r)

\* The transport operation a sender invokes on the shared session.
TransportCall(op, url, payload, params, headers, s) ==
    [op |-> op, url |-> url, json |-> payload, params |-> params,
     headers |-> headers, session |-> s]

ClumpSend(op, req_map, payload, s) ==
    TransportCall(op, req_map.url, payload, req_map.query_params,
                  req_map.headers, s)

\* Variant: the GET sender passes the body too, and PATCH goes out as PUT.
ClumpCallMixedUp(req_map, s) ==
    CASE req_map.http_op = "GET" -> ClumpSend("GET", req_map, req_map.body, s)
      [] req_map.http_op = "POST" -> ClumpSend("POST", req_map, req_map.body, s)
      [] req_map.http_op = "PUT" -> ClumpSend("PUT", req_map, req_map.body, s)
      [] req_map.http_op = "PATCH" -> ClumpSend("PUT", req_map, req_map.body, s)
      [] req_map.http_op = "OPTIONS" -> ClumpSend("OPTIONS", req_map, req_map.body, s)
      [] req_map.http_op = "DELETE" -> ClumpSend("DELETE", req_map, req_map.body, s)
      [] OTHER -> NoCall

ClumpCall(req_map, s) ==
    CASE req_map.http_op = "GET" -> ClumpSend("GET", req_map, NoPayload, s)
      [] req_map.http_op = "POST" -> ClumpSend("POST", req_map, req_map.body, s)
      [] req_map.http_op = "PUT" -> ClumpSend("PUT", req_map, req_map.body, s)
      [] req_map.http_op = "PATCH" -> ClumpSend("PATCH", req_map, req_map.body, s)
      [] req_map.http_op = "OPTIONS" -> ClumpSend("OPTIONS", req_map, req_map.body, s)
      [] req_map.http_op = "DELETE" -> ClumpSend("DELETE", req_map, req_map.body, s)
      [] OTHER -> NoCall

\* The match statement of Clump._route_request once the awaited sender
\* has the transport's answer.
ClumpRouted(req_map, r) ==
    CASE req_map.http_op = "GET" -> send_get_request(req_map, r)
      [] req_map.http_op = "POST" -> send_post_request(req_map, r)
      [] req_map.http_op = "PUT" -> send_put_request(req_map, r)
      [] req_map.http_op = "PATCH" -> send_patch_request(req_map, r)
      [] req_map.http_op = "OPTIONS" -> send_options_request(req_map, r)
      [] req_map.http_op = "DELETE" -> send_delete_request(req_map, r)

\* The except clause of Clump._route_request: an Exception raised inside
\* the try is stored on the response built before it and the response
\* is returned; anything else leaves the task.
\* Variant: the router has no handler, every exception leaves the task.
ClumpCaughtNothing(cls) == FALSE

ClumpCaught(cls) == IsException(cls)

InitialStatus == 0

\* Variant: the caught exception is not stored on the response.
ClumpFailedNoError(req_map, cls) == RequestResponse(req_map, InitialStatus)

ClumpFailed(req_map, cls) ==
    [RequestResponse(req_map, InitialStatus) EXCEPT !.error = cls]

(***************************************************************************)
(* zSession: the per-verb senders.  resp.json() is not guarded, so a body  *)
(* that does not decode raises out of the sender.                          *)
(***************************************************************************)
zRequestResponse(reqMap, statusCode, responseBody) ==
    [requestMap |-> reqMap, statusCode |-> statusCode,
     responseBody |-> responseBody]

zInitialStatus == 0

zDecodes(r) == JsonDecodable(r.raw)

zDecodedResponse(reqMap, r) == zRequestResponse(reqMap, r.status, JsonOf(r.raw))

\* The match statement of zSession._routeIndividualRequest: POST is routed
\* to _sendGetRequest.
zSend(op, reqMap, payload, s) ==
    TransportCall(op, reqMap.url, payload, reqMap.queryParams,
                  reqMap.headers, s)

zSessionCall(reqMap, s) ==
    CASE reqMap.httpOperation = "GET" -> zSend("GET", reqMap, NoPayload, s)
      [] reqMap.httpOperation = "POST" -> zSend("GET", reqMap, NoPayload, s)
      [] reqMap.httpOperation = "PUT" -> zSend("PUT", reqMap, reqMap.body, s)
      [] reqMap.httpOperation = "PATCH" -> zSend("PATCH", reqMap, reqMap.body, s)
      [] reqMap.httpOperation = "OPTIONS" -> zSend("OPTIONS", reqMap, reqMap.body, s)
      [] reqMap.httpOperation = "DELETE" -> zSend("DELETE", reqMap, reqMap.body, s)
      [] OTHER -> NoCall

(***************************************************************************)
(* asyncio: how a task ends, and what gather hands back.                   *)
(***************************************************************************)
\* cls is raised inside task i: by the transport at an await, by
\* resp.json(), or by the router's raise statement.
Throw(i, cls) == thrown' = [thrown EXCEPT ![i] = cls]

\* Task i returns v.
TaskReturns(i, v) ==
    /\ pc' = [pc EXCEPT ![i] = "returned"]
    /\ taskResult' = [taskResult EXCEPT ![i] = v]
    /\ doneOrder' = Append(doneOrder, i)
    /\ UNCHANGED <<taskExc, gatherExc>>

\* Variant: gather is called without return_exceptions whatever the mode.
TaskRaisesFailFast(i, cls) ==
    /\ pc' = [pc EXCEPT ![i] = "raised"]
    /\ taskExc' = [taskExc EXCEPT ![i] = cls]
    /\ doneOrder' = Append(doneOrder, i)
    /\ gatherExc' = IF gatherExc = NoExc THEN Exc(cls, i) ELSE gatherExc
    /\ UNCHANGED taskResult

\* Variant: gather is called with return_exceptions whatever the mode.
TaskRaisesCollected(i, cls) ==
    /\ pc' = [pc EXCEPT ![i] = "raised"]
    /\ taskExc' = [taskExc EXCEPT ![i] = cls]
    /\ doneOrder' = Append(doneOrder, i)
    /\ UNCHANGED <<taskResult, gatherExc>>

\* Task i raises cls.  Without return_exceptions, gather's done callback
\* sets the outer future to the first exception a child ends with.
TaskRaises(i, cls) ==
    /\ pc' = [pc EXCEPT ![i] = "raised"]
    /\ taskExc' = [taskExc EXCEPT ![i] = cls]
    /\ doneOrder' = Append(doneOrder, i)
    /\ gatherExc' = IF ~rtn_exc /\ gatherExc = NoExc
                    THEN Exc(cls, i) ELSE gatherExc
    /\ UNCHANGED taskResult

\* Variant: the results are listed in the order the tasks finished.
GatherOrderAsCompleted == doneOrder

\* gather lists its results in the order of the awaitables it was given.
GatherOrder == [k \in 1..N |-> k]

\* Variant: gather hands over each result as its task finishes.
GatherResultsAsCompleted ==
    [k \in 1..N |->
        LET i == IF k \in DOMAIN doneOrder THEN doneOrder[k] ELSE k
        IN  IF pc[i] = "raised"
            THEN [isExc |-> TRUE, cls |-> taskExc[i], unit |-> i]
            ELSE [isExc |-> FALSE, value |-> taskResult[i]]]

GatherResults ==
    [k \in 1..N |->
        LET i == GatherOrder[k]
        IN  IF pc[i] = "raised"
            THEN [isExc |-> TRUE, cls |-> taskExc[i], unit |-> i]
            ELSE [isExc |-> FALSE, value |-> taskResult[i]]]

\* Variant: the wait ends with the first task that finished.
GatherDoneFirstCompleted ==
    gatherExc = NoExc /\ (N = 0 \/ \E i \in Units : Finished(i))

\* gather's outer future is done: every child finished, or (without
\* return_exceptions) one child raised.
GatherDone == gatherExc = NoExc /\ \A i \in Units : Finished(i)

\* Variant: the wait is given up as soon as a task raised, in either mode.
GatherFailedAnyRaised == \E i \in Units : pc[i] = "raised"

GatherFailed == gatherExc # NoExc

\* The loop of Clump._send_requests over gather's results.
SynthStatus == 418

\* Variant: a result that is an exception is skipped.
ClumpResponsesSkippingErrors(results) ==
    LET kept == SelectSeq(results, LAMBDA x : ~x.isExc)
    IN  [i \in 1..Len(kept) |-> kept[i].value]

ClumpResponses(results) ==
    [i \in 1..Len(results) |->
        IF results[i].isExc
        THEN [RequestResponse(requestMaps[i], SynthStatus)
                 EXCEPT !.error = results[i].cls]
        ELSE results[i].value]

\* Variant: a result is tested for Exception, so a CancelledError lands in
\* neither list.
processResultsOrdinaryOnly(taskResults) ==
    LET excs  == SelectSeq(taskResults, LAMBDA x : x.isExc /\ IsException(x.cls))
        resps == SelectSeq(taskResults, LAMBDA x : ~x.isExc)
    IN  [requestResponses |-> [k \in 1..Len(resps) |-> resps[k].value],
         taskExceptions |-> [k \in 1..Len(excs) |-> Exc(excs[k].cls, excs[k].unit)]]

\* _processResults of zsession.py.
processResults(taskResults) ==
    LET excs  == SelectSeq(taskResults, LAMBDA x : x.isExc)
        resps == SelectSeq(taskResults, LAMBDA x : ~x.isExc)
    IN  [requestResponses |-> [k \in 1..Len(resps) |-> resps[k].value],
         taskExceptions |-> [k \in 1..Len(excs) |-> Exc(excs[k].cls, excs[k].unit)]]

(***************************************************************************)
(* The state after construction: Clump(requests) or zSession(requestMaps). *)
(***************************************************************************)
Init ==
    /\ \/ /\ dispatcher = "Clump"
          /\ requestMaps \in Batches(CoreDescriptors, Descriptors)
       \/ /\ dispatcher = "zSession"
          /\ requestMaps \in Batches(zOf(CoreDescriptors), zOf(Descriptors))
    /\ rtn_exc = FALSE
    /\ pcMain = "constructed"
    /\ session = NoSession
    /\ sessionsOpened = 0
    /\ pc = [i \in Units |-> "none"]
    /\ calls = [i \in Units |-> NoCall]
    /\ resp = [i \in Units |-> NoResp]
    /\ thrown = [i \in Units |-> None]
    /\ taskResult = [i \in Units |-> NoResult]
    /\ taskExc = [i \in Units |-> None]
    /\ doneOrder = << >>
    /\ gatherExc = NoExc
    /\ responses = << >>
    /\ requestResults = NoResults
    /\ raised = NoExc

(***************************************************************************)
(* The dispatch call up to its await of gather: the session is opened and  *)
(* one task per descriptor is created (ensure_future) before any runs.     *)
(***************************************************************************)
OpenSession ==
    /\ sessionsOpened' = sessionsOpened + 1
    /\ session' = [id |-> sessionsOpened + 1, state |-> "open"]

CreateTasks ==
    pc' = [i \in Units |-> "created"]

StartDispatch(rtn) ==
    /\ pcMain = "constructed"
    /\ rtn_exc' = rtn
    /\ OpenSession
    /\ CreateTasks
    /\ pcMain' = "gathering"
    /\ UNCHANGED <<dispatcher, requestMaps, calls, resp, thrown, taskResult, taskExc,
                   doneOrder, gatherExc, responses, requestResults, raised>>

send_requests(return_exceptions) ==
    /\ dispatcher = "Clump"
    /\ StartDispatch(return_exceptions)

sendRequests(return_exceptions) ==
    /\ dispatcher = "zSession"
    /\ StartDispatch(return_exceptions)

(***************************************************************************)
(* The tasks.  A task runs while the dispatch call awaits gather.          *)
(***************************************************************************)
\* Variant: the tasks are awaited one after the other, a task runs only
\* while no other task is suspended.
RunnableOneAtATime(i) ==
    /\ pcMain = "gathering"
    /\ i \in Units
    /\ \A k \in Units \ {i} : ~InFlight(k)

Runnable(i) == pcMain = "gathering" /\ i \in Units

\* Clump._route_request up to its first await: the response is preset, the
\* verb is matched and the sender issues its transport call; an unmatched
\* verb raises NotImplementedError inside the try.
route_request(i) ==
    /\ dispatcher = "Clump"
    /\ Runnable(i)
    /\ pc[i] = "created"
    /\ IF requestMaps[i].http_op \in ValidVerbs
       THEN /\ calls' = [calls EXCEPT ![i] = ClumpCall(requestMaps[i], session.id)]
            /\ pc' = [pc EXCEPT ![i] = "await_headers"]
            /\ UNCHANGED <<thrown, taskResult, taskExc, doneOrder, gatherExc>>
       ELSE /\ Throw(i, "NotImplementedError")
            /\ IF ClumpCaught("NotImplementedError")
               THEN TaskReturns(i, ClumpFailed(requestMaps[i], "NotImplementedError"))
               ELSE TaskRaises(i, "NotImplementedError")
            /\ UNCHANGED calls
    /\ UNCHANGED <<dispatcher, requestMaps, rtn_exc, pcMain, session,
                   sessionsOpened, resp, responses, requestResults, raised>>

\* zSession._routeIndividualRequest up to its first await; an unmatched
\* verb passes and the preset response is returned.
routeIndividualRequest(i) ==
    /\ dispatcher = "zSession"
    /\ Runnable(i)
    /\ pc[i] = "created"
    /\ IF requestMaps[i].httpOperation \in ValidVerbs
       THEN /\ calls' = [calls EXCEPT ![i] = zSessionCall(requestMaps[i], session.id)]
            /\ pc' = [pc EXCEPT ![i] = "await_headers"]
            /\ UNCHANGED <<taskResult, taskExc, doneOrder, gatherExc>>
       ELSE /\ TaskReturns(i, zRequestResponse(requestMaps[i], zInitialStatus, NoDict))
            /\ UNCHANGED calls
    /\ UNCHANGED thrown
    /\ UNCHANGED <<dispatcher, requestMaps, rtn_exc, pcMain, session,
                   sessionsOpened, resp, responses, requestResults, raised>>

\* The transport answers with the status line and headers: the sender's
\* `async with session.<verb>(...) as resp` is entered.
TransportHeaders(i, status) ==
    /\ Runnable(i)
    /\ pc[i] = "await_headers"
    /\ resp' = [resp EXCEPT ![i] = [status |-> status, raw |-> None]]
    /\ pc' = [pc EXCEPT ![i] = "await_body"]
    /\ UNCHANGED <<dispatcher, requestMaps, rtn_exc, pcMain, session,
                   sessionsOpened, calls, thrown, taskResult, taskExc,
                   doneOrder, gatherExc, responses, requestResults, raised>>

\* The body arrives: resp.json() decodes it or fails to; the sender builds
\* its response (Clump falls back to the text), or raises (zSession).
TransportBody(i, raw) ==
    /\ Runnable(i)
    /\ pc[i] = "await_body"
    /\ resp' = [resp EXCEPT ![i].raw = raw]
    /\ IF JsonDecodable(raw) THEN UNCHANGED thrown ELSE Throw(i, "ContentTypeError")
    /\ IF dispatcher = "Clump"
       THEN TaskReturns(i, ClumpRouted(requestMaps[i], resp'[i]))
       ELSE IF zDecodes(resp'[i])
            THEN TaskReturns(i, zDecodedResponse(requestMaps[i], resp'[i]))
            ELSE TaskRaises(i, "ContentTypeError")
    /\ UNCHANGED <<dispatcher, requestMaps, rtn_exc, pcMain, session,
                   sessionsOpened, calls, responses, requestResults, raised>>

\* The transport call raises an ordinary exception (connection error,
\* timeout, payload error) at either await.
TransportError(i) ==
    /\ Runnable(i)
    /\ InFlight(i)
    /\ resp' = [resp EXCEPT ![i] = NoResp]
    /\ Throw(i, "ClientError")
    /\ IF dispatcher = "Clump" /\ ClumpCaught("ClientError")
       THEN TaskReturns(i, ClumpFailed(requestMaps[i], "ClientError"))
       ELSE TaskRaises(i, "ClientError")
    /\ UNCHANGED <<dispatcher, requestMaps, rtn_exc, pcMain, session,
                   sessionsOpened, calls, responses, requestResults, raised>>

\* The task is cancelled while suspended: CancelledError, a BaseException
\* that is no Exception, is thrown into it at its await.
TaskCancelled(i) ==
    /\ Runnable(i)
    /\ InFlight(i)
    /\ resp' = [resp EXCEPT ![i] = NoResp]
    /\ Throw(i, "CancelledError")
    /\ IF dispatcher = "Clump" /\ ClumpCaught("CancelledError")
       THEN TaskReturns(i, ClumpFailed(requestMaps[i], "CancelledError"))
       ELSE TaskRaises(i, "CancelledError")
    /\ UNCHANGED <<dispatcher, requestMaps, rtn_exc, pcMain, session,
                   sessionsOpened, calls, responses, requestResults, raised>>

(***************************************************************************)
(* The dispatch call after gather.                                         *)
(***************************************************************************)
\* Variant: the session is not closed when the block is left.
SessionLeftOpen == session' = session

CloseSession == session' = [session EXCEPT !.state = "closed"]

\* Clump._send_requests after gather returned: the responses are built,
\* the `async with` block is left and the list is returned.
send_requests_return ==
    /\ dispatcher = "Clump"
    /\ pcMain = "gathering"
    /\ GatherDone
    /\ responses' = ClumpResponses(GatherResults)
    /\ CloseSession
    /\ pcMain' = "returned"
    /\ UNCHANGED <<dispatcher, requestMaps, rtn_exc, sessionsOpened, pc, calls,
                   resp, thrown, taskResult, taskExc, doneOrder, gatherExc,
                   requestResults, raised>>

\* zSession._sendRequests after gather returned.
sendRequests_return ==
    /\ dispatcher = "zSession"
    /\ pcMain = "gathering"
    /\ GatherDone
    /\ requestResults' = processResults(GatherResults)
    /\ CloseSession
    /\ pcMain' = "returned"
    /\ UNCHANGED <<dispatcher, requestMaps, rtn_exc, sessionsOpened, pc, calls,
                   resp, thrown, taskResult, taskExc, doneOrder, gatherExc,
                   responses, raised>>

\* gather raised into _send_requests / _sendRequests: the exception leaves
\* the `async with` block, which closes the session on its way out.
GatherRaises ==
    /\ pcMain = "gathering"
    /\ GatherFailed
    /\ CloseSession
    /\ pcMain' = "aborting"
    /\ UNCHANGED <<dispatcher, requestMaps, rtn_exc, sessionsOpened, pc, calls,
                   resp, thrown, taskResult, taskExc, doneOrder, gatherExc,
                   responses, requestResults, raised>>

\* async_run / uvloop.run ends: the tasks still pending are cancelled and
\* the exception reaches the caller of the dispatch.
RunnerRaises ==
    /\ pcMain = "aborting"
    /\ pc' = [i \in Units |-> IF Finished(i) THEN pc[i] ELSE "cancelled"]
    /\ raised' = gatherExc
    /\ pcMain' = "raised"
    /\ UNCHANGED <<dispatcher, requestMaps, rtn_exc, session, sessionsOpened,
                   calls, resp, thrown, taskResult, taskExc, doneOrder,
                   gatherExc, responses, requestResults>>

Next ==
    \/ \E rtn \in BOOLEAN : send_requests(rtn)
    \/ \E rtn \in BOOLEAN : sendRequests(rtn)
    \/ \E i \in Units : route_request(i)
    \/ \E i \in Units : routeIndividualRequest(i)
    \/ \E i \in Units, status \in Statuses : TransportHeaders(i, status)
    \/ \E i \in Units, raw \in RawBodies : TransportBody(i, raw)
    \/ \E i \in Units : TransportError(i)
    \/ \E i \in Units : TaskCancelled(i)
    \/ send_requests_return
    \/ sendRequests_return
    \/ GatherRaises
    \/ RunnerRaises

Spec == Init /\ [][Next]_vars

(***************************************************************************)
(* The caller dispatches again on the same object.  The previous call's    *)
(* tasks, event loop and result are gone; the object still holds           *)
(* self._requestMaps, which the call only read.                            *)
(***************************************************************************)
\* Variant: the senders pop the body off the descriptor they send.
RequestsWithoutBodies ==
    [i \in Units |-> [requestMaps[i] EXCEPT !.body = NoDict]]

\* self._requestMaps after a dispatch call.
KeptRequests == requestMaps

NextCall ==
    /\ pcMain \in {"returned", "raised"}
    /\ sessionsOpened < MaxCalls
    /\ requestMaps' = KeptRequests
    /\ pcMain' = "constructed"
    /\ rtn_exc' = FALSE
    /\ pc' = [i \in Units |-> "none"]
    /\ calls' = [i \in Units |-> NoCall]
    /\ resp' = [i \in Units |-> NoResp]
    /\ thrown' = [i \in Units |-> None]
    /\ taskResult' = [i \in Units |-> NoResult]
    /\ taskExc' = [i \in Units |-> None]
    /\ doneOrder' = << >>
    /\ gatherExc' = NoExc
    /\ responses' = << >>
    /\ requestResults' = NoResults
    /\ raised' = NoExc
    /\ UNCHANGED <<dispatcher, session, sessionsOpened>>

NextRepeat == Next \/ NextCall

\* Any step of task i, and the steps that end it.
TaskStep(i) ==
    \/ route_request(i)
    \/ routeIndividualRequest(i)
    \/ \E status \in Statuses : TransportHeaders(i, status)
    \/ \E raw \in RawBodies : TransportBody(i, raw)
    \/ TransportError(i)
    \/ TaskCancelled(i)

TaskEnds(i) ==
    /\ TaskStep(i)
    /\ pc'[i] \in {"returned", "raised"}

(***************************************************************************)
(* Scheduling.  The event loop runs every callback that is ready, and the  *)
(* transport ends every call it was given, with an answer or an error: a   *)
(* step that stays possible is eventually taken.                           *)
(***************************************************************************)
FairSpec == Init /\ [][Next]_vars /\ WF_vars(Next)

SpecRepeat == Init /\ [][NextRepeat]_vars

(***************************************************************************)
(* What the transport did for unit i, and the descriptor's verb.           *)
(***************************************************************************)
ClumpReturned == dispatcher = "Clump" /\ pcMain = "returned"

\* The transport call of unit i succeeded: status and body were delivered.
Answered(i) == resp[i].raw # None

VerbOf(i) ==
    IF dispatcher = "Clump" THEN requestMaps[i].http_op
    ELSE requestMaps[i].httpOperation

\* The statuses a synthesized or preset failure outcome carries.
Sentinels == {InitialStatus, SynthStatus}

\* What the server of tests/bin/test_server answers to a descriptor of the
\* request tests: JSON and 200 on / and /foo; on /exception the handler
\* raises and the framework answers 500 with an HTML page.
TestServer(req_map) ==
    IF req_map.url = "/exception"
    THEN [status |-> 500, raw |-> HtmlRaw]
    ELSE [status |-> 200, raw |-> JsonRaw]

TestDescriptors == { d \in CoreDescriptors : d.http_op \in ValidVerbs }

(***************************************************************************)
(* Claims.                                                                 *)
(***************************************************************************)

\* C1: the list Clump.send_requests returns is aligned with the batch:
\* outcome i refers to descriptor i, for outcomes a task returned and for
\* outcomes synthesized from an exception, whatever order the tasks
\* finished in.
C1_OrderPreserved ==
    ClumpReturned =>
        \A i \in Units :
            /\ i \in DOMAIN responses
            /\ responses[i].request_map = requestMaps[i]

\* Two different descriptors, the second finished first, and the first
\* ended as an exception that was turned into an outcome.
C1_Witness ==
    /\ ClumpReturned
    /\ N = 2
    /\ requestMaps[1] # requestMaps[2]
    /\ doneOrder = <<2, 1>>
    /\ pc[1] = "raised"
    /\ responses[1].request_map = requestMaps[1]
    /\ responses[2].request_map = requestMaps[2]

\* C2: in collect mode Clump.send_requests does not raise, and the list
\* it returns has exactly one outcome per descriptor, whatever the tasks
\* ended in.
C2_FullCardinality ==
    (dispatcher = "Clump" /\ rtn_exc) =>
        /\ pcMain \notin {"aborting", "raised"}
        /\ pcMain = "returned" => Len(responses) = N

\* A batch of two in collect mode: one task ended in an exception, the
\* other in a decode fallback.
C2_Witness ==
    /\ ClumpReturned
    /\ rtn_exc
    /\ N = 2
    /\ pc[1] = "raised"
    /\ thrown[2] = "ContentTypeError"
    /\ Len(responses) = 2

\* C3 (as claimed): without return_exceptions, Clump.send_requests never
\* returns a list when the transport call of some request raised.
C3_FailFastNeverReturnsFailure ==
    (ClumpReturned /\ ~rtn_exc) =>
        \A i \in Units : thrown[i] \notin {"ClientError"}

\* C4: in collect mode a failure inside one task ends in a hard-failure
\* outcome of that request alone: the call does not abort, no sibling is
\* abandoned, and each sibling the transport answered has the outcome of
\* its own answer.
C4_FailureContained ==
    (dispatcher = "Clump" /\ rtn_exc) =>
        /\ pcMain \notin {"aborting", "raised"}
        /\ \A i \in Units : pc[i] # "cancelled"
        /\ pcMain = "returned" =>
             \A i \in Units :
                /\ Finished(i)
                /\ thrown[i] \in {"ClientError", "CancelledError"} =>
                      /\ responses[i].error = thrown[i]
                      /\ responses[i].status_code \in Sentinels
                      /\ responses[i].body = NoDict
                      /\ responses[i].headers = NoDict
                /\ Answered(i) =>
                      /\ responses[i].status_code = resp[i].status
                      /\ responses[i].error =
                            IF JsonDecodable(resp[i].raw) THEN None
                            ELSE "ContentTypeError"
                      /\ responses[i].body =
                            IF JsonDecodable(resp[i].raw)
                            THEN <<"json", resp[i].raw>>
                            ELSE <<"text", resp[i].raw>>

\* Collect mode, the first request failed first and the second was then
\* answered with JSON and 200.
C4_Witness ==
    /\ ClumpReturned
    /\ rtn_exc
    /\ N = 2
    /\ doneOrder = <<1, 2>>
    /\ thrown[1] = "CancelledError"
    /\ responses[1].error = "CancelledError"
    /\ Answered(2)
    /\ responses[2].status_code = 200
    /\ responses[2].error = None

\* C5: for every verb, a request the transport answered with status S
\* and a body that is not JSON has the outcome (S, text wrapper,
\* headers, decode error), never a hard failure.
C5_DecodeFallback ==
    ClumpReturned =>
        \A i \in Units :
            (Answered(i) /\ ~JsonDecodable(resp[i].raw)) =>
                /\ responses[i].status_code = resp[i].status
                /\ responses[i].body = <<"text", resp[i].raw>>
                /\ responses[i].headers # NoDict
                /\ responses[i].error = "ContentTypeError"

\* A DELETE answered 200 with an HTML body.
C5_Witness ==
    /\ ClumpReturned
    /\ N = 1
    /\ requestMaps[1].http_op = "DELETE"
    /\ resp[1] = [status |-> 200, raw |-> HtmlRaw]
    /\ responses[1].body = <<"text", HtmlRaw>>
    /\ responses[1].error = "ContentTypeError"

CleanSuccess(o, i) ==
    /\ o.error = None
    /\ Answered(i)
    /\ o.status_code = resp[i].status

DecodeFallback(o, i) ==
    /\ o.error = "ContentTypeError"
    /\ Answered(i)
    /\ o.status_code = resp[i].status
    /\ o.body = <<"text", resp[i].raw>>

HardFailure(o, i) ==
    /\ o.error \in {"ClientError", "NotImplementedError", "CancelledError"}
    /\ o.error = thrown[i]
    /\ o.status_code \in Sentinels
    /\ o.body = NoDict
    /\ o.headers = NoDict

\* C6: every outcome Clump.send_requests returns, in either mode, has
\* exactly one of the three shapes: clean success, decode fallback, hard
\* failure (the sentinel being the preset 0 or the synthesized 418).
C6_ExactlyOneShape ==
    ClumpReturned =>
        \A i \in DOMAIN responses :
            LET o == responses[i]
            IN  Cardinality({ k \in 1..3 :
                    \/ k = 1 /\ CleanSuccess(o, i)
                    \/ k = 2 /\ DecodeFallback(o, i)
                    \/ k = 3 /\ HardFailure(o, i) }) = 1

\* One returned list that holds a hard failure and a decode fallback.
C6_Witness ==
    /\ ClumpReturned
    /\ N = 2
    /\ HardFailure(responses[1], 1)
    /\ thrown[1] = "ClientError"
    /\ DecodeFallback(responses[2], 2)

\* The batch is made of descriptors of the request tests, one of them GET
\* /exception, and every request got the test server's answer.
C7_Scenario ==
    /\ ClumpReturned
    /\ rtn_exc
    /\ \E i \in Units : requestMaps[i].url = "/exception"
    /\ \A i \in Units :
          /\ requestMaps[i] \in TestDescriptors
          /\ resp[i] = TestServer(requestMaps[i])

\* C7: in collect mode, a batch of requests answered with JSON and 200
\* plus a GET whose endpoint raises (500, not JSON) returns one outcome
\* per request; the raising endpoint's has status 500 and an error, every
\* other has status 200 and no error.
C7_ServerException ==
    C7_Scenario =>
        /\ Len(responses) = N
        /\ \A i \in Units :
              IF requestMaps[i].url = "/exception"
              THEN responses[i].status_code = 500 /\ responses[i].error # None
              ELSE responses[i].status_code = 200 /\ responses[i].error = None

C7_Witness ==
    /\ C7_Scenario
    /\ N = 2
    /\ requestMaps[1].http_op = "POST"
    /\ requestMaps[2].url = "/exception"
    /\ responses[2].status_code = 500
    /\ responses[1].status_code = 200

\* C8: in the default mode, when every transport call is answered with a
\* body that is JSON, Clump.send_requests returns one outcome per request,
\* each with the transport's status, no error and the headers.
C8_AllJson ==
    (ClumpReturned /\ ~rtn_exc /\ \A i \in Units : Answered(i) /\ JsonDecodable(resp[i].raw)) =>
        /\ Len(responses) = N
        /\ \A i \in Units :
              /\ responses[i].status_code = resp[i].status
              /\ responses[i].error = None
              /\ responses[i].headers # NoDict

\* A GET and a POST, both answered 200 with JSON, in the default mode.
C8_Witness ==
    /\ ClumpReturned
    /\ ~rtn_exc
    /\ N = 2
    /\ requestMaps[1].http_op = "GET"
    /\ requestMaps[2].http_op = "POST"
    /\ \A i \in Units : resp[i] = [status |-> 200, raw |-> JsonRaw]
    /\ \A i \in Units : responses[i].status_code = 200

\* C9 (as claimed): a dispatch in which a descriptor with an unsupported
\* verb reached the router never returns normally; the defect reaches the
\* caller as an error, in either dispatcher and either mode.
C9_UnroutableVerbIsFatal ==
    pcMain = "returned" =>
        \A i \in Units : VerbOf(i) \in ValidVerbs

\* C10: a dispatch call opens one session at its start, every transport
\* call of its tasks goes through that session, the session stays open
\* while the call awaits its tasks, and it is closed once the call has
\* ended, by a return or by a propagated error.
C10_OneSessionClosedOnExit ==
    /\ pcMain = "constructed" => sessionsOpened = 0 /\ session = NoSession
    /\ pcMain # "constructed" => sessionsOpened = 1 /\ session.id = 1
    /\ \A i \in Units : calls[i] # NoCall => calls[i].session = session.id
    /\ pcMain = "gathering" => session.state = "open"
    /\ pcMain \in {"aborting", "returned", "raised"} => session.state = "closed"

\* The early abort: the default mode, a task was cancelled, the call
\* raised while another task was still waiting, and the session is closed.
C10_Witness ==
    /\ pcMain = "raised"
    /\ ~rtn_exc
    /\ raised.cls = "CancelledError"
    /\ \E i \in Units : pc[i] = "cancelled" /\ calls[i] # NoCall
    /\ session.state = "closed"


\* C11: for each of the six verbs Clump._route_request invokes the
\* transport operation of that verb on the descriptor's URL with its query
\* parameters and headers; the GET call has no JSON payload, every other
\* call has the descriptor's body as its JSON payload.
C11_ClumpRouting ==
    dispatcher = "Clump" =>
        \A i \in Units :
            /\ ((InFlight(i) \/ Finished(i)) /\ requestMaps[i].http_op \in ValidVerbs)
                  => calls[i] # NoCall
            /\ calls[i] # NoCall =>
                  /\ requestMaps[i].http_op \in ValidVerbs
                  /\ calls[i].op = requestMaps[i].http_op
                  /\ calls[i].url = requestMaps[i].url
                  /\ calls[i].params = requestMaps[i].query_params
                  /\ calls[i].headers = requestMaps[i].headers
                  /\ calls[i].json =
                        IF requestMaps[i].http_op = "GET" THEN NoPayload
                        ELSE requestMaps[i].body

\* A GET that carries a body, query parameters and headers went out with
\* the parameters and headers and without the body.
C11_Witness ==
    /\ dispatcher = "Clump"
    /\ N = 1
    /\ requestMaps[1].http_op = "GET"
    /\ requestMaps[1].body = FooBar
    /\ calls[1] # NoCall
    /\ calls[1].op = "GET"
    /\ calls[1].json = NoPayload
    /\ calls[1].params = QueryFooBar
    /\ calls[1].headers = AuthToken


\* C12 (as claimed): for each of the six verbs
\* zSession._routeIndividualRequest invokes the transport operation of
\* that verb, and every verb other than GET has the descriptor's body as
\* its JSON payload.
C12_zSessionRouting ==
    dispatcher = "zSession" =>
        \A i \in Units :
            calls[i] # NoCall =>
                /\ calls[i].op = requestMaps[i].httpOperation
                /\ requestMaps[i].httpOperation # "GET" =>
                      calls[i].json = requestMaps[i].body


\* C13: without return_exceptions, once a task of zSession raised (a
\* transport error, a decode failure, a cancellation) sendRequests returns
\* no RequestResults: it returns only when every task returned, and when
\* it raises, what it raises is the exception of a task that raised.
C13_zFailFast ==
    (dispatcher = "zSession" /\ ~rtn_exc) =>
        /\ (\E i \in Units : pc[i] = "raised") =>
              /\ pcMain # "returned"
              /\ requestResults = NoResults
        /\ pcMain = "returned" =>
              \A i \in Units : pc[i] = "returned" /\ thrown[i] = None
        /\ pcMain = "raised" =>
              /\ raised.unit \in Units
              /\ pc[raised.unit] = "raised"
              /\ raised.cls = thrown[raised.unit]
              /\ raised.cls # None

\* The first task returned its response, the second then failed to decode
\* its body, and the call raised that decode error.
C13_Witness ==
    /\ dispatcher = "zSession"
    /\ ~rtn_exc
    /\ N = 2
    /\ doneOrder = <<1, 2>>
    /\ pc[1] = "returned"
    /\ pcMain = "raised"
    /\ raised = Exc("ContentTypeError", 2)
    /\ requestResults = NoResults


\* C14: with return_exceptions, zSession.sendRequests does not raise and
\* the RequestResults it returns accounts for every descriptor once: a
\* task that returned has its response in requestResponses, a task that
\* raised has its exception in taskExceptions, and the two lengths add up
\* to the size of the batch.
C14_zAccountsForAll ==
    (dispatcher = "zSession" /\ rtn_exc) =>
        /\ pcMain \notin {"aborting", "raised"}
        /\ pcMain = "returned" =>
              /\ Len(requestResults.requestResponses)
                    + Len(requestResults.taskExceptions) = N
              /\ Len(requestResults.requestResponses)
                    = Cardinality({ i \in Units : pc[i] = "returned" })
              /\ Len(requestResults.taskExceptions)
                    = Cardinality({ i \in Units : pc[i] = "raised" })

\* A batch of two: one response and one exception, a cancellation.
C14_Witness ==
    /\ dispatcher = "zSession"
    /\ rtn_exc
    /\ pcMain = "returned"
    /\ N = 2
    /\ Len(requestResults.requestResponses) = 1
    /\ Len(requestResults.taskExceptions) = 1
    /\ requestResults.taskExceptions[1].cls = "CancelledError"


C16_BlocksUntilDone ==
    /\ [](ClumpReturned => \A i \in Units : Finished(i))
    /\ []((dispatcher = "Clump" /\ pcMain \in {"aborting", "raised"}) =>
             (~rtn_exc /\ \E i \in Units : pc[i] = "raised"))
    /\ (dispatcher = "Clump" /\ pcMain = "gathering")
          ~> (pcMain \in {"returned", "raised"})

\* The call returned after both its transport calls had been issued and
\* had ended, one of them with an error.
C16_Witness ==
    /\ ClumpReturned
    /\ N = 2
    /\ \A i \in Units : calls[i] # NoCall /\ Finished(i)
    /\ thrown[1] = "ClientError"
    /\ Answered(2)


\* C17: in Clump a body that does not decode is never fatal, in either
\* mode: as long as no transport call failed and no task was cancelled,
\* the call neither aborts nor raises, every task whose body did not
\* decode returned an outcome with the transport's status, the text of the
\* body and the decode error, and a call that returned lists all N
\* outcomes, those included.
C17_DecodeFailureNotFatal ==
    (/\ dispatcher = "Clump"
     /\ \A i \in Units : thrown[i] \notin {"ClientError", "CancelledError"})
    =>
    /\ pcMain \notin {"aborting", "raised"}
    /\ gatherExc = NoExc
    /\ \A i \in Units :
          thrown[i] = "ContentTypeError" =>
             /\ pc[i] = "returned"
             /\ taskExc[i] = None
             /\ DecodeFallback(taskResult[i], i)
    /\ pcMain = "returned" =>
          /\ Len(responses) = N
          /\ \A i \in Units :
                thrown[i] = "ContentTypeError" => DecodeFallback(responses[i], i)

\* A default-mode call returned both outcomes although neither body
\* decoded.
C17_Witness ==
    /\ ClumpReturned
    /\ ~rtn_exc
    /\ N = 2
    /\ \A i \in Units : thrown[i] = "ContentTypeError" /\ Answered(i)
    /\ Len(responses) = 2


C19_OrdinaryCaughtElse418 ==
    dispatcher = "Clump" =>
       /\ \A i \in Units :
             thrown[i] \in {"ClientError", "NotImplementedError"} =>
                /\ pc[i] = "returned"
                /\ taskExc[i] = None
                /\ gatherExc.unit # i
                /\ taskResult[i] =
                      [request_map |-> requestMaps[i], status_code |-> 0,
                       body |-> NoDict, headers |-> NoDict,
                       error |-> thrown[i]]
                /\ pcMain = "returned" => responses[i] = taskResult[i]
       /\ pcMain = "returned" =>
             \A i \in Units :
                (responses[i].status_code = 418 /\ ~Answered(i)) =>
                   /\ rtn_exc
                   /\ GatherResults[i].isExc
                   /\ taskExc[i] # None
                   /\ ~IsException(taskExc[i])
                   /\ responses[i].error = taskExc[i]

\* A collect-mode call returned a status-0 outcome for a transport error
\* and a status-418 outcome for a cancelled task.
C19_Witness ==
    /\ ClumpReturned
    /\ rtn_exc
    /\ N = 2
    /\ thrown[1] = "ClientError"
    /\ responses[1].status_code = 0
    /\ thrown[2] = "CancelledError"
    /\ responses[2].status_code = 418


\* C20 as stated: in both dispatchers and both modes, whenever the session
\* is closed no task of the dispatch is suspended at a transport wait:
\* every task that issued its transport call has returned or raised.
C20_NeverClosedInFlight ==
    session.state = "closed" =>
       \A i \in Units : ~InFlight(i) /\ (calls[i] # NoCall => Finished(i))

\* C20, amended: the session is closed with every task finished whenever
\* the call returns and throughout collect mode; it is closed over
\* unfinished tasks exactly when, in the default mode, the exception of a
\* task that raised has left gather: the dispatch is then being aborted
\* and the remaining tasks are cancelled by the runner.
C20_ClosedInFlightOnlyOnAbort ==
    /\ (session.state = "closed" /\ (rtn_exc \/ pcMain = "returned")) =>
          \A i \in Units : Finished(i)
    /\ (session.state = "closed" /\ \E i \in Units : ~Finished(i)) =>
          /\ ~rtn_exc
          /\ pcMain \in {"aborting", "raised"}
          /\ gatherExc # NoExc
          /\ pc[gatherExc.unit] = "raised"
          /\ pcMain = "raised" =>
                \A i \in Units : Finished(i) \/ pc[i] = "cancelled"

\* A collect-mode zSession call closed its session after both tasks had
\* finished, one of them by raising.
C20_Witness ==
    /\ dispatcher = "zSession"
    /\ rtn_exc
    /\ session.state = "closed"
    /\ N = 2
    /\ pc[1] = "raised"
    /\ pc[2] = "returned"


\* C21: with return_exceptions, the RequestResults zSession.sendRequests
\* returns is a stable partition of the input order: requestResponses
\* holds the responses of the tasks that returned, taskExceptions the
\* exceptions of the tasks that raised, each in the relative order of
\* their descriptors in the batch, whatever the order the tasks finished
\* in.
C21_StablePartition ==
    (dispatcher = "zSession" /\ rtn_exc /\ pcMain = "returned") =>
        LET inputOrder  == [k \in 1..N |-> k]
            returning   == SelectSeq(inputOrder, LAMBDA i : pc[i] = "returned")
            raising     == SelectSeq(inputOrder, LAMBDA i : pc[i] = "raised")
        IN  /\ requestResults.requestResponses =
                  [k \in 1..Len(returning) |-> taskResult[returning[k]]]
            /\ requestResults.taskExceptions =
                  [k \in 1..Len(raising) |->
                      Exc(taskExc[raising[k]], raising[k])]

\* Two tasks raised different exceptions, the second before the first,
\* and the call returned both.
C21_Witness ==
    /\ dispatcher = "zSession"
    /\ rtn_exc
    /\ pcMain = "returned"
    /\ N = 2
    /\ doneOrder = <<2, 1>>
    /\ taskExc[1] = "ClientError"
    /\ taskExc[2] = "ContentTypeError"
    /\ Len(requestResults.taskExceptions) = 2

=============================================================================
